---- MODULE Spec2Model ----
(***************************************************************************)
(* ComplyScribe CLI configuration module (complyscribe/cli/config.py):     *)
(* schema validation of the configuration, formatting of validation        *)
(* errors, copy-with-update, and the projection of a configuration to a    *)
(* YAML file and back.                                                     *)
(***************************************************************************)
EXTENDS Integers, Sequences, FiniteSets, TLC

VARIABLES
    file,      \* content of the configuration file on disk
    values,    \* the in-memory input handed in by the caller
    heap,      \* the configuration objects the caller holds; index = identity
    ret        \* the last call: operation, arguments and what it produced

vars == <<file, values, heap, ret>>

(***************************************************************************)
(* Bounds of the model.                                                    *)
(***************************************************************************)
MaxObjs == 2
MaxErrs == 2

(***************************************************************************)
(* Python / YAML values, tagged by their type.                             *)
(***************************************************************************)
None == [t |-> "none"]
Str(s) == [t |-> "str", s |-> s]
Num(i) == [t |-> "int", i |-> i]
Bool(b) == [t |-> "bool", b |-> b]
List(l) == [t |-> "list", l |-> l]
Dict(d) == [t |-> "dict", d |-> d, intkey |-> FALSE]
\* a mapping that also holds an integer key (1: ...), which YAML allows
DictIntKey(d) == [t |-> "dict", d |-> d, intkey |-> TRUE]
PathV(p) == [t |-> "path", p |-> p]
NoValues == [t |-> "novalues"]

\* Python truthiness of a value
Truthy(v) ==
    CASE v.t = "none" -> FALSE
      [] v.t = "novalues" -> FALSE
      [] v.t = "str" -> v.s # ""
      [] v.t = "int" -> v.i # 0
      [] v.t = "bool" -> v.b
      [] v.t = "list" -> v.l # <<>>
      [] v.t = "dict" -> (DOMAIN v.d # {}) \/ v.intkey
      [] OTHER -> TRUE

(***************************************************************************)
(* The file system the path validation probes.                             *)
(***************************************************************************)
\* the directories that exist (one of them is a relative directory "None")
Dirs == {"/repo", "None"}

\* pathlib.Path(s): the path a string names (a trailing separator is dropped)
PathOf(s) == IF s = "/repo/" THEN "/repo" ELSE s

IsDir(p) == p \in Dirs

(***************************************************************************)
(* ComplyScribeConfigError                                                 *)
(***************************************************************************)
\* dict.get(key): the value, or nothing (falsy) when the key is missing
Get(err, key, missing) == IF key \in DOMAIN err THEN err[key] ELSE missing

FormatDropDefault(err) ==
    LET loc == Get(err, "loc", <<>>)
        txt == Get(err, "msg", "")
    IN  IF loc # <<>>
        THEN "Invalid config value for " \o loc[1] \o "."
             \o (IF txt # "" THEN " " \o txt \o "." ELSE "")
        ELSE IF txt # "" THEN txt \o "." ELSE "Unable to load config."

\* _format: one violation as a string
Format(err) ==
    LET loc == Get(err, "loc", <<>>)
        txt == Get(err, "msg", "")
        msg0 == "Unable to load config."
        msg1 == IF loc # <<>> THEN "Invalid config value for " \o loc[1] \o "." ELSE msg0
    IN  IF txt # "" THEN msg1 \o " " \o txt \o "." ELSE msg1

RECURSIVE Join(_)
\* "".join(strings)
Join(strs) == IF strs = <<>> THEN "" ELSE Head(strs) \o Join(Tail(strs))

\* __init__ and __str__: the formatted list and the combined string
ComplyScribeConfigError(errors) ==
    LET formatted == [i \in 1..Len(errors) |-> Format(errors[i])]
    IN  [errors |-> formatted, text |-> Join(formatted)]

(***************************************************************************)
(* The schema: UpstreamsConfig and ComplyScribeConfig, and their           *)
(* validation by the model classes (errors are collected, never only the   *)
(* first one).                                                             *)
(***************************************************************************)
StrFields == {"markdown_dir", "committer_name", "committer_email",
              "commit_message", "branch", "ssp_index_file"}
Fields == {"repo_path", "upstreams"} \cup StrFields

Violation(loc, msg) == [loc |-> loc, msg |-> msg]
Checked(val, errs) == [val |-> val, errs |-> errs]

\* every violation of errs, located under the field (or index) seg
Under(seg, errs) == [i \in 1..Len(errs) |-> Violation(<<seg>> \o errs[i].loc, errs[i].msg)]

\* Optional[str]
ValidateStr(v) ==
    IF v.t \in {"none", "str"}
    THEN Checked(v, <<>>)
    ELSE Checked(None, <<Violation(<<>>, "Input should be a valid string")>>)

\* Optional[DirectoryPath]: the path must exist and be a directory
ValidateDirectoryPath(v) ==
    CASE v.t = "none" -> Checked(v, <<>>)
      [] v.t \in {"str", "path"} ->
            LET p == IF v.t = "str" THEN PathOf(v.s) ELSE v.p
            IN  IF IsDir(p)
                THEN Checked(PathV(p), <<>>)
                ELSE Checked(None, <<Violation(<<>>, "Path does not point to a directory")>>)
      [] OTHER -> Checked(None, <<Violation(<<>>, "Input is not a valid path")>>)

RECURSIVE ItemErrors(_, _)
\* the violations of the items of a List[str], from index i (1-based) on
ItemErrors(l, i) ==
    IF i > Len(l) THEN <<>>
    ELSE (IF l[i].t = "str" THEN <<>>
          ELSE <<Violation(<<i - 1>>, "Input should be a valid string")>>)
         \o ItemErrors(l, i + 1)

\* List[str]
ValidateStrList(v) ==
    IF v.t = "list"
    THEN Checked(v, ItemErrors(v.l, 1))
    ELSE Checked(None, <<Violation(<<>>, "Input should be a valid list")>>)

\* bool
ValidateBool(v) ==
    IF v.t = "bool"
    THEN Checked(v, <<>>)
    ELSE Checked(None, <<Violation(<<>>, "Input should be a valid boolean")>>)

UpstreamsDefaultsNoInclude ==
    [include_models |-> List(<<>>), exclude_models |-> List(<<>>),
     skip_validation |-> Bool(FALSE)]

\* the defaults of UpstreamsConfig
UpstreamsDefaults ==
    [include_models |-> List(<<Str("*")>>), exclude_models |-> List(<<>>),
     skip_validation |-> Bool(FALSE)]

UpstreamsConfig(sources, include_models, exclude_models, skip_validation) ==
    [t |-> "UpstreamsConfig", sources |-> sources, include_models |-> include_models,
     exclude_models |-> exclude_models, skip_validation |-> skip_validation]

\* a sub-field of upstreams: validated when given, its default otherwise
SubField(d, key, checked) ==
    IF key \in DOMAIN d THEN checked ELSE Checked(UpstreamsDefaults[key], <<>>)

\* UpstreamsConfig from a mapping
ValidateUpstreamsDict(d) ==
    LET src == IF "sources" \in DOMAIN d
               THEN ValidateStrList(d["sources"])
               ELSE Checked(None, <<Violation(<<>>, "Field required")>>)
        inc == SubField(d, "include_models",
                        ValidateStrList(Get(d, "include_models", None)))
        exc == SubField(d, "exclude_models",
                        ValidateStrList(Get(d, "exclude_models", None)))
        skp == SubField(d, "skip_validation",
                        ValidateBool(Get(d, "skip_validation", None)))
    IN  Checked(UpstreamsConfig(src.val, inc.val, exc.val, skp.val),
                Under("sources", src.errs) \o Under("include_models", inc.errs)
                \o Under("exclude_models", exc.errs) \o Under("skip_validation", skp.errs))

\* Optional[UpstreamsConfig]
ValidateUpstreams(v) ==
    CASE v.t \in {"none", "UpstreamsConfig"} -> Checked(v, <<>>)
      [] v.t = "dict" -> ValidateUpstreamsDict(v.d)
      [] OTHER -> Checked(None, <<Violation(<<>>,
                    "Input should be a valid dictionary or instance of UpstreamsConfig")>>)

\* one field of ComplyScribeConfig
ValidateField(f, v) ==
    CASE f = "repo_path" -> ValidateDirectoryPath(v)
      [] f = "upstreams" -> ValidateUpstreams(v)
      [] OTHER -> ValidateStr(v)

\* the field of a mapping, validated; its default (None) when the key is missing
Field(d, f) == Under(f, ValidateField(f, Get(d, f, None)).errs)

\* the violations of a mapping, in the order the fields are declared
FirstErrorOnly(d) ==
    LET all == Field(d, "repo_path") \o Field(d, "markdown_dir")
               \o Field(d, "committer_name") \o Field(d, "committer_email")
               \o Field(d, "commit_message") \o Field(d, "branch")
               \o Field(d, "ssp_index_file") \o Field(d, "upstreams")
    IN  IF all = <<>> THEN <<>> ELSE <<all[1]>>

Errors(d) ==
    Field(d, "repo_path") \o Field(d, "markdown_dir")
    \o Field(d, "committer_name") \o Field(d, "committer_email")
    \o Field(d, "commit_message") \o Field(d, "branch")
    \o Field(d, "ssp_index_file") \o Field(d, "upstreams")

\* the configuration object built from a mapping that has no violation
Build(d) == [f \in Fields |-> ValidateField(f, Get(d, f, None)).val]

\* ComplyScribeConfig(): every field at its default
Defaults == [f \in Fields |-> None]

NoObj == [t |-> "noobj"]
Ok(obj) == [kind |-> "ok", obj |-> obj, errors |-> <<>>, text |-> "", viol |-> <<>>]
Absent == [kind |-> "absent", obj |-> NoObj, errors |-> <<>>, text |-> "", viol |-> <<>>]
Raised(exc) == [kind |-> exc, obj |-> NoObj, errors |-> <<>>, text |-> "", viol |-> <<>>]
ConfigError(viol) ==
    LET e == ComplyScribeConfigError(viol)
    IN  [kind |-> "ComplyScribeConfigError", obj |-> NoObj, errors |-> e.errors,
         text |-> e.text, viol |-> viol]

\* ComplyScribeConfig.model_validate(v) / ComplyScribeConfig(**d)
ModelValidate(v) ==
    IF v.t # "dict"
    THEN ConfigError(<<Violation(<<>>,
            "Input should be a valid dictionary or instance of ComplyScribeConfig")>>)
    ELSE IF Errors(v.d) # <<>> THEN ConfigError(Errors(v.d)) ELSE Ok(Build(v.d))

\* make_config(values)
make_config(v) == IF Truthy(v) THEN ModelValidate(v) ELSE Ok(Defaults)

(***************************************************************************)
(* to_yaml_dict: the mapping written to the YAML file.                     *)
(***************************************************************************)
\* str(x), as used for repo_path
PyStr(v) ==
    CASE v.t = "none" -> "None"
      [] v.t = "path" -> v.p
      [] v.t = "str" -> v.s
      [] v.t = "int" -> ToString(v.i)
      [] v.t = "bool" -> IF v.b THEN "True" ELSE "False"

IgnoredOnlyNone == {None}

\* IGNORED_VALUES
IGNORED_VALUES == {None, Str("None"), List(<<>>)}

UpstreamsDictAlways(u) ==
    Dict([k \in {"sources", "skip_validation", "include_models", "exclude_models"} |-> u[k]])

\* the nested mapping of an UpstreamsConfig
UpstreamsDict(u) ==
    Dict([k \in {"sources", "skip_validation", "include_models"}
               \cup (IF Truthy(u.exclude_models) THEN {"exclude_models"} ELSE {})
          |-> u[k]])

\* to_yaml_dict(self): the mapping, or the AttributeError of an upstreams
\* value that is no UpstreamsConfig
to_yaml_dict(obj) ==
    IF Truthy(obj["upstreams"]) /\ obj["upstreams"].t # "UpstreamsConfig"
    THEN Raised("AttributeError")
    ELSE LET config_dict ==
                 [k \in Fields \ (IF Truthy(obj["upstreams"]) THEN {} ELSE {"upstreams"}) |->
                     CASE k = "repo_path" -> Str(PyStr(obj[k]))
                       [] k = "upstreams" -> UpstreamsDict(obj[k])
                       [] OTHER -> obj[k]]
             kept == {k \in DOMAIN config_dict : config_dict[k] \notin IGNORED_VALUES}
         IN  Ok(Dict([k \in kept |-> config_dict[k]]))

(***************************************************************************)
(* The YAML codec: yaml.dump and yaml.safe_load.                           *)
(***************************************************************************)
Scalar(text, quoted) == [y |-> "scalar", text |-> text, quoted |-> quoted]
SeqNode(items) == [y |-> "seq", items |-> items]
MapNode(entries, intkey) == [y |-> "map", entries |-> entries, intkey |-> intkey]

\* the integers that occur in the model's documents
YamlInts == 0..9

\* plain scalars that do not resolve to a string
PlainNull == {"null", "~", ""}
PlainTrue == {"true", "True", "yes", "on"}
PlainFalse == {"false", "False", "no", "off"}
IsPlainInt(text) == \E i \in YamlInts : ToString(i) = text
NeedsQuotes(text) == text \in PlainNull \cup PlainTrue \cup PlainFalse \/ IsPlainInt(text)

RECURSIVE DumpNeverQuotes(_)
DumpNeverQuotes(v) ==
    CASE v.t = "none" -> Scalar("null", FALSE)
      [] v.t = "bool" -> Scalar(IF v.b THEN "true" ELSE "false", FALSE)
      [] v.t = "int" -> Scalar(ToString(v.i), FALSE)
      [] v.t = "str" -> Scalar(v.s, FALSE)
      [] v.t = "list" -> SeqNode([i \in 1..Len(v.l) |-> DumpNeverQuotes(v.l[i])])
      [] v.t = "dict" -> MapNode([k \in DOMAIN v.d |-> DumpNeverQuotes(v.d[k])], v.intkey)

RECURSIVE Dump(_)
\* yaml.dump(value): the document's node
Dump(v) ==
    CASE v.t = "none" -> Scalar("null", FALSE)
      [] v.t = "bool" -> Scalar(IF v.b THEN "true" ELSE "false", FALSE)
      [] v.t = "int" -> Scalar(ToString(v.i), FALSE)
      [] v.t = "str" -> Scalar(v.s, NeedsQuotes(v.s))
      [] v.t = "list" -> SeqNode([i \in 1..Len(v.l) |-> Dump(v.l[i])])
      [] v.t = "dict" -> MapNode([k \in DOMAIN v.d |-> Dump(v.d[k])], v.intkey)

RECURSIVE SafeLoad(_)
\* yaml.safe_load(node): the value of a node
SafeLoad(n) ==
    CASE n.y = "scalar" ->
            IF n.quoted THEN Str(n.text)
            ELSE CASE n.text \in PlainNull -> None
                   [] n.text \in PlainTrue -> Bool(TRUE)
                   [] n.text \in PlainFalse -> Bool(FALSE)
                   [] IsPlainInt(n.text) -> Num(CHOOSE i \in YamlInts : ToString(i) = n.text)
                   [] OTHER -> Str(n.text)
      [] n.y = "seq" -> List([i \in 1..Len(n.items) |-> SafeLoad(n.items[i])])
      [] n.y = "map" -> [t |-> "dict", d |-> [k \in DOMAIN n.entries |-> SafeLoad(n.entries[k])],
                         intkey |-> n.intkey]

\* the file: missing, empty, not YAML at all, or a YAML document
FileMissing == [f |-> "missing"]
FileEmpty == [f |-> "empty"]
FileMalformed == [f |-> "malformed"]
FileYaml(node) == [f |-> "yaml", root |-> node]

(***************************************************************************)
(* load_from_file, write_to_file, update_config                            *)
(***************************************************************************)
\* ComplyScribeConfig(**config_yaml): ** takes a mapping with string keys only
Construct(v) ==
    IF v.t # "dict" \/ v.intkey THEN Raised("TypeError") ELSE ModelValidate(v)

LoadTypeErrorEscapes(f) ==
    CASE f.f = "missing" -> Absent
      [] f.f = "malformed" -> Raised("YAMLError")
      [] f.f = "empty" -> Construct(None)
      [] f.f = "yaml" -> Construct(SafeLoad(f.root))

\* load_from_file(file_path)
load_from_file(f) ==
    CASE f.f = "missing" -> Absent
      [] f.f = "malformed" -> Raised("YAMLError")
      [] f.f = "empty" -> (IF Construct(None).kind = "TypeError" THEN Absent
                           ELSE Construct(None))
      [] f.f = "yaml" ->
            LET r == Construct(SafeLoad(f.root))
            IN  IF r.kind = "TypeError" THEN Absent ELSE r

\* write_to_file(config, file_path): the file after the call. The parent
\* directories are created first; the file is opened (and so truncated)
\* before the mapping is built, so a to_yaml_dict that raises leaves it
\* empty. Nothing in the body raises ValidationError.
written_file(obj) ==
    LET r == to_yaml_dict(obj)
    IN  IF r.kind = "ok" THEN FileYaml(Dump(r.obj)) ELSE FileEmpty

ModelCopyFromDefaults(obj, update) ==
    [f \in Fields |-> IF f \in DOMAIN update THEN update[f] ELSE None]

\* config.model_copy(update=update): the fields of the copy; the update is
\* stored as given, nothing is validated
model_copy(obj, update) ==
    [f \in Fields |-> IF f \in DOMAIN update THEN update[f] ELSE obj[f]]

UpdateInPlace(h, c, update) ==
    [heap |-> [h EXCEPT ![c] = model_copy(h[c], update)], new |-> c]

\* update_config(config, update): the heap after the call and the object returned
update_config(h, c, update) ==
    [heap |-> Append(h, model_copy(h[c], update)), new |-> Len(h) + 1]

(***************************************************************************)
(* The inputs the operations are exercised on.                             *)
(***************************************************************************)
Unset == [t |-> "unset"]

\* raw values of upstreams
UpValidMin == Dict([sources |-> List(<<Str("a")>>)])
UpValidFull == Dict([sources |-> List(<<Str("a"), Str("b")>>),
                     include_models |-> List(<<Str("m")>>),
                     exclude_models |-> List(<<Str("x")>>),
                     skip_validation |-> Bool(TRUE)])
UpValidEmpty == Dict([sources |-> List(<<>>), include_models |-> List(<<>>)])
UpNoSources == Dict([include_models |-> List(<<Str("m")>>)])
UpTwoBad == Dict([sources |-> Str("a"), skip_validation |-> Str("maybe")])
UpBadItems == Dict([sources |-> List(<<Num(3), Str("a"), Num(4)>>)])

\* the raw values a field is given: conforming ones and violations
Choices(f) ==
    CASE f = "repo_path" ->
            {Unset, None, Str("/repo/"), Str("None"), Str("/missing"), Num(7)}
      [] f = "upstreams" ->
            {Unset, None, UpValidMin, UpValidFull, UpValidEmpty,
             UpNoSources, UpTwoBad, UpBadItems, Num(7)}
      [] f \in {"committer_name", "branch"} ->
            {Unset, None, Str("x"), Str("None"), Str("5"), Num(5)}
      [] OTHER -> {Unset, Str("x"), Num(5)}

\* the fields varied together, and the raw values they are given then
PairFields == {"repo_path", "committer_name", "branch", "upstreams"}
PairChoices(f) ==
    CASE f = "repo_path" -> {Str("None"), Str("/missing")}
      [] f = "upstreams" -> {UpValidEmpty, UpTwoBad}
      [] OTHER -> {Str("None"), Num(5)}

EmptyBase == [f \in Fields |-> Unset]
FullBase ==
    [f \in Fields |->
        CASE f = "repo_path" -> Str("/repo/")
          [] f = "upstreams" -> UpValidFull
          [] OTHER -> Str("x")]

Singles(b) == UNION {{[b EXCEPT ![f] = v] : v \in Choices(f)} : f \in Fields}
Pairs(b) ==
    UNION {UNION {{[b EXCEPT ![f] = v, ![g] = w] : v \in PairChoices(f), w \in PairChoices(g)}
                  : g \in PairFields \ {f}} : f \in PairFields}
Assignments == Singles(EmptyBase) \cup Singles(FullBase) \cup Pairs(EmptyBase) \cup Pairs(FullBase)

\* the mapping of an assignment: the keys that are set
MappingOf(a) == [k \in {f \in Fields : a[f] # Unset} |-> a[k]]

RawMappings == {MappingOf(a) : a \in Assignments}

\* what make_config is handed: nothing, a mapping, or something else
Inputs ==
    {NoValues, List(<<Str("a")>>), List(<<>>),
     DictIntKey([branch |-> Num(5)]), DictIntKey([branch |-> Str("x")])}
    \cup {Dict(m) : m \in RawMappings}

\* what the configuration file holds before the first call
InitFiles ==
    {FileMissing, FileEmpty, FileMalformed,
     FileYaml(Scalar("null", FALSE)), FileYaml(Scalar("x", FALSE)),
     FileYaml(Scalar("5", FALSE)),
     FileYaml(SeqNode(<<>>)), FileYaml(SeqNode(<<Scalar("branch", FALSE)>>)),
     FileYaml(Dump(DictIntKey([branch |-> Num(5)]))),
     FileYaml(Dump(DictIntKey([branch |-> Str("x")])))}
    \cup {FileYaml(Dump(Dict(m))) : m \in RawMappings}

\* the update mappings update_config is handed
UpObject == UpstreamsConfig(List(<<Str("s")>>), List(<<Str("*")>>), List(<<>>), Bool(FALSE))
UpdateChoices(f) ==
    CASE f = "repo_path" -> {PathV("/repo"), Str("/missing"), Num(7)}
      [] f = "upstreams" -> {UpObject, UpValidMin, Num(0)}
      [] f = "branch" -> {None, Str("y"), Str("None"), Num(5)}
      [] f = "committer_name" -> {Str("y"), Num(5)}
      [] f \in {"markdown_dir", "commit_message"} -> {Str("y")}
      [] OTHER -> {Num(5)}
Updates ==
    {<<>>}
    \cup UNION {{MappingOf([EmptyBase EXCEPT ![f] = v]) : v \in UpdateChoices(f)} : f \in Fields}
    \cup {[branch |-> Num(5), upstreams |-> UpObject],
          [branch |-> Str("y"), upstreams |-> UpObject]}

\* the violation lists ComplyScribeConfigError is built from
ErrDicts ==
    {<<>>} \cup {[loc |-> l] : l \in {<<>>, <<"repo_path">>, <<"upstreams", "sources">>}}
    \cup {[msg |-> m] : m \in {"", "Field required"}}
    \cup {[loc |-> l, msg |-> m, type |-> "missing"] :
            l \in {<<>>, <<"repo_path">>, <<"upstreams", "sources">>},
            m \in {"", "Field required", "Input should be a valid string"}}
ErrLists == UNION {[1..n -> ErrDicts] : n \in 0..MaxErrs}

(***************************************************************************)
(* The state machine: a caller of the module's functions.                  *)
(***************************************************************************)
NoCall ==
    [op |-> "none", cfg |-> 0, before |-> NoObj, arg |-> NoValues, kind |-> "none",
     new |-> 0, errors |-> <<>>, text |-> "", viol |-> <<>>, out |-> NoObj]

\* a session starts from in-memory values (and no file yet) or from a
\* configuration file (and no values); the file system's directories are fixed
Init ==
    /\ heap = <<>>
    /\ ret = NoCall
    /\ \/ values \in Inputs /\ file = FileMissing
       \/ values = NoValues /\ file \in InitFiles

\* the caller keeps the configuration a call returned
Keep(r) == IF r.kind = "ok" THEN Append(heap, r.obj) ELSE heap
Returned(r) == IF r.kind = "ok" THEN Len(heap) + 1 ELSE 0

MakeConfig ==
    /\ Len(heap) < MaxObjs
    /\ LET r == make_config(values)
       IN  /\ heap' = Keep(r)
           /\ ret' = [NoCall EXCEPT !.op = "make_config", !.arg = values, !.kind = r.kind,
                         !.new = Returned(r), !.errors = r.errors, !.text = r.text,
                         !.viol = r.viol]
    /\ UNCHANGED <<file, values>>

LoadFromFile ==
    /\ Len(heap) < MaxObjs
    /\ LET r == load_from_file(file)
       IN  /\ heap' = Keep(r)
           /\ ret' = [NoCall EXCEPT !.op = "load_from_file", !.arg = file, !.kind = r.kind,
                         !.new = Returned(r), !.errors = r.errors, !.text = r.text,
                         !.viol = r.viol]
    /\ UNCHANGED <<file, values>>

WriteToFile(c) ==
    /\ LET r == to_yaml_dict(heap[c])
       IN  ret' = [NoCall EXCEPT !.op = "write_to_file", !.cfg = c, !.before = heap[c],
                      !.kind = r.kind, !.out = r.obj]
    /\ file' = written_file(heap[c])
    /\ UNCHANGED <<values, heap>>

UpdateConfig(c, update) ==
    /\ Len(heap) < MaxObjs
    /\ LET r == update_config(heap, c, update)
       IN  /\ heap' = r.heap
           /\ ret' = [NoCall EXCEPT !.op = "update_config", !.cfg = c, !.before = heap[c],
                         !.arg = update, !.kind = "ok", !.new = r.new]
    /\ UNCHANGED <<file, values>>

Next ==
    \/ MakeConfig
    \/ LoadFromFile
    \/ \E c \in 1..Len(heap) : WriteToFile(c)
    \/ \E c \in 1..Len(heap), update \in Updates : UpdateConfig(c, update)

Spec == Init /\ [][Next]_vars

(***************************************************************************)
(* The error class on its own: built from any list of violations.          *)
(***************************************************************************)
InitErr ==
    /\ heap = <<>>
    /\ ret = NoCall
    /\ file = FileMissing
    /\ values \in ErrLists

RaiseConfigError ==
    /\ ret.op = "none"
    /\ LET e == ComplyScribeConfigError(values)
       IN  ret' = [NoCall EXCEPT !.op = "ComplyScribeConfigError", !.arg = values,
                      !.kind = "ComplyScribeConfigError", !.errors = e.errors,
                      !.text = e.text]
    /\ UNCHANGED <<file, values, heap>>

NextErr == RaiseConfigError

SpecErr == InitErr /\ [][NextErr]_vars

(***************************************************************************)
(* The schema as the claims read it, stated apart from the validation      *)
(* above: which raw values conform, and which objects are configurations.  *)
(***************************************************************************)
IsStrList(v) == v.t = "list" /\ \A i \in 1..Len(v.l) : v.l[i].t = "str"

ConformsUpstreams(v) ==
    \/ v.t \in {"none", "UpstreamsConfig"}
    \/ /\ v.t = "dict"
       /\ "sources" \in DOMAIN v.d /\ IsStrList(v.d["sources"])
       /\ "include_models" \in DOMAIN v.d => IsStrList(v.d["include_models"])
       /\ "exclude_models" \in DOMAIN v.d => IsStrList(v.d["exclude_models"])
       /\ "skip_validation" \in DOMAIN v.d => v.d["skip_validation"].t = "bool"

Conforms(f, v) ==
    CASE f = "repo_path" ->
            \/ v.t = "none"
            \/ v.t = "str" /\ PathOf(v.s) \in Dirs
            \/ v.t = "path" /\ v.p \in Dirs
      [] f = "upstreams" -> ConformsUpstreams(v)
      [] OTHER -> v.t \in {"none", "str"}

\* the fields of a mapping whose value violates the schema
InvalidFields(d) == {f \in Fields \cap DOMAIN d : ~Conforms(f, d[f])}

\* an object whose fields have the declared types
IsTyped(obj) ==
    /\ obj["repo_path"].t \in {"none", "path"}
    /\ \A f \in StrFields : obj[f].t \in {"none", "str"}
    /\ \/ obj["upstreams"].t = "none"
       \/ /\ obj["upstreams"].t = "UpstreamsConfig"
          /\ IsStrList(obj["upstreams"].sources)
          /\ IsStrList(obj["upstreams"].include_models)
          /\ IsStrList(obj["upstreams"].exclude_models)
          /\ obj["upstreams"].skip_validation.t = "bool"

\* a valid configuration: typed, and its repo_path an existing directory
IsConfiguration(obj) ==
    IsTyped(obj) /\ (obj["repo_path"].t = "path" => obj["repo_path"].p \in Dirs)

Ids == 1..Len(heap)

(***************************************************************************)
(* C1                                                                      *)
(***************************************************************************)
\* C1: update_config re-validates the merged result: whenever the
\* configuration is valid and the update mapping names at least one field
\* with a value that violates the schema, the call fails with the
\* configuration validation error and returns no configuration.
C1_UpdateRevalidates ==
    (ret.op = "update_config" /\ IsConfiguration(ret.before)
        /\ InvalidFields(ret.arg) # {})
    => (ret.kind = "ComplyScribeConfigError" /\ ret.new = 0)

(***************************************************************************)
(* C2                                                                      *)
(***************************************************************************)
NotAMapping(f) == f.f \in {"missing", "empty"} \/ (f.f = "yaml" /\ f.root.y # "map")

\* C2: load_from_file returns the absent result, and raises nothing, when
\* no file exists at the path or the YAML content is a list, a scalar or an
\* empty document.
C2_AbsentNotError ==
    (ret.op = "load_from_file" /\ NotAMapping(ret.arg))
    => (ret.kind = "absent" /\ ret.new = 0 /\ ret.errors = <<>>)

C2_Witness ==
    /\ ret.op = "load_from_file" /\ ret.kind = "absent"
    /\ ret.arg.f = "yaml" /\ ret.arg.root.y = "seq" /\ ret.arg.root.items # <<>>

(***************************************************************************)
(* C3                                                                      *)
(***************************************************************************)
\* the call validated a raw mapping (given in memory, or read from the file)
ValidatesMapping ==
    \/ ret.op = "make_config" /\ ret.arg.t = "dict"
    \/ ret.op = "load_from_file" /\ ret.arg.f = "yaml" /\ ret.arg.root.y = "map"

RawMapping == IF ret.op = "make_config" THEN ret.arg ELSE SafeLoad(ret.arg.root)

\* clause i of the error names field f
Names(i, f) ==
    ret.errors[i] = "Invalid config value for " \o f \o ". " \o ret.viol[i].msg \o "."

ClausesNaming(f) == {i \in 1..Len(ret.errors) : Names(i, f)}

\* the violations the schema finds in a raw value of upstreams: one for a
\* value that is no mapping, else one per violated sub-field or list item
BadItems(v) == Cardinality({i \in 1..Len(v.l) : v.l[i].t # "str"})
ListViolations(d, key) ==
    IF key \notin DOMAIN d THEN 0
    ELSE IF d[key].t # "list" THEN 1 ELSE BadItems(d[key])
UpstreamsViolations(v) ==
    IF v.t # "dict" THEN 1
    ELSE (IF "sources" \in DOMAIN v.d THEN ListViolations(v.d, "sources") ELSE 1)
         + ListViolations(v.d, "include_models") + ListViolations(v.d, "exclude_models")
         + (IF "skip_validation" \in DOMAIN v.d /\ v.d["skip_validation"].t # "bool"
            THEN 1 ELSE 0)

\* C3 as stated: for every raw mapping with k >= 1 invalid fields,
\* make_config and load_from_file fail with the validation error, and the
\* error holds exactly one formatted clause per invalid field, naming it.
C3_OneClausePerField ==
    (ValidatesMapping /\ InvalidFields(RawMapping.d) # {})
    => /\ ret.kind = "ComplyScribeConfigError"
       /\ Len(ret.errors) = Cardinality(InvalidFields(RawMapping.d))
       /\ \A f \in InvalidFields(RawMapping.d) : Cardinality(ClausesNaming(f)) = 1

\* C3 amended: for every raw mapping with k >= 1 invalid fields, make_config
\* fails with the validation error, and so does load_from_file unless the
\* mapping has a non-string key (then it returns the absent result); the
\* error holds one clause per violation, each naming the top-level field the
\* violation is in: exactly one for an invalid field other than upstreams,
\* and for upstreams one per violated sub-field or list item.
C3_CollectAll ==
    (ValidatesMapping /\ InvalidFields(RawMapping.d) # {})
    => IF ret.op = "load_from_file" /\ RawMapping.intkey
       THEN ret.kind = "absent"
       ELSE /\ ret.kind = "ComplyScribeConfigError"
            /\ ret.new = 0
            /\ \A i \in 1..Len(ret.errors) :
                  \E f \in InvalidFields(RawMapping.d) : Names(i, f)
            /\ \A f \in InvalidFields(RawMapping.d) :
                  Cardinality(ClausesNaming(f)) =
                      IF f = "upstreams" THEN UpstreamsViolations(RawMapping.d[f]) ELSE 1

C3_Witness ==
    /\ ret.op = "load_from_file" /\ ret.kind = "ComplyScribeConfigError"
    /\ ValidatesMapping
    /\ {"repo_path", "committer_name"} \subseteq InvalidFields(RawMapping.d)
    /\ Len(ret.errors) = 2

(***************************************************************************)
(* C4                                                                      *)
(***************************************************************************)
FullySet(obj) == \A f \in Fields : obj[f] # None

\* the configurations whose written file is the file that was just loaded
WrittenAndLoaded ==
    {c \in Ids : /\ c # ret.new
                 /\ IsConfiguration(heap[c]) /\ FullySet(heap[c])
                 /\ ret.arg = written_file(heap[c])}

\* C4 as stated: writing a valid configuration with every field set and
\* loading the file back returns a configuration equal to it in every
\* field, whatever the text of its string fields.
C4_RoundTripAnyText ==
    ret.op = "load_from_file"
    => \A c \in WrittenAndLoaded : ret.kind = "ok" /\ heap[ret.new] = heap[c]

\* the field is dropped on writing: its text is the literal string "None"
WrittenAsNone(obj, f) ==
    \/ f = "repo_path" /\ obj[f].p = "None"
    \/ f \in StrFields /\ obj[f].s = "None"

\* C4 amended: writing a valid configuration with every field set and
\* loading the file back returns a configuration equal to it in every field
\* whose text is not the literal string "None" (upstreams and all its
\* sub-fields included); a field whose text is "None" comes back absent.
C4_RoundTrip ==
    ret.op = "load_from_file"
    => \A c \in WrittenAndLoaded :
          /\ ret.kind = "ok"
          /\ \A f \in Fields :
                heap[ret.new][f] = IF WrittenAsNone(heap[c], f) THEN None ELSE heap[c][f]

C4_Witness ==
    /\ ret.op = "load_from_file" /\ ret.kind = "ok"
    /\ \E c \in WrittenAndLoaded :
          /\ heap[c]["committer_name"] = Str("5")
          /\ heap[ret.new] = heap[c]

(***************************************************************************)
(* C5                                                                      *)
(***************************************************************************)
\* C5: for an update mapping that names only fields of the schema, with
\* values that conform to it, the configuration update_config returns
\* equals the update's value in every field the update names and the
\* original configuration in every other field.
C5_UpdateFields ==
    (ret.op = "update_config" /\ DOMAIN ret.arg \subseteq Fields
        /\ InvalidFields(ret.arg) = {})
    => /\ ret.kind = "ok" /\ ret.new \in Ids
       /\ \A f \in Fields :
             heap[ret.new][f] = IF f \in DOMAIN ret.arg THEN ret.arg[f] ELSE ret.before[f]

C5_Witness ==
    /\ ret.op = "update_config" /\ ret.new \in Ids
    /\ DOMAIN ret.arg = {"branch", "upstreams"} /\ InvalidFields(ret.arg) = {}
    /\ ret.before["committer_name"] = Str("x") /\ ret.before["branch"] = Str("x")
    /\ heap[ret.new]["committer_name"] = Str("x")
    /\ heap[ret.new]["upstreams"] = UpObject

(***************************************************************************)
(* C6                                                                      *)
(***************************************************************************)
\* the value a set field is written with: repo_path as its path string
Rendered(obj, f) == IF f = "repo_path" THEN Str(obj[f].p) ELSE obj[f]

\* C6: the mapping to_yaml_dict gives for a configuration holds no field
\* whose value is None, the string "None" or an empty sequence; it holds
\* every other set field with its value (repo_path as its path string);
\* an absent repo_path never appears.
C6_NoEmptyValues ==
    (ret.op = "write_to_file" /\ IsTyped(ret.before))
    => /\ ret.kind = "ok" /\ ret.out.t = "dict"
       /\ DOMAIN ret.out.d \subseteq Fields
       /\ \A k \in DOMAIN ret.out.d :
             ret.out.d[k] \notin {None, Str("None"), List(<<>>)}
       /\ \A f \in Fields \ {"upstreams"} :
             (ret.before[f] # None /\ Rendered(ret.before, f) # Str("None"))
             => (f \in DOMAIN ret.out.d /\ ret.out.d[f] = Rendered(ret.before, f))
       /\ ret.before["upstreams"] # None => "upstreams" \in DOMAIN ret.out.d
       /\ ret.before["repo_path"] = None => "repo_path" \notin DOMAIN ret.out.d

C6_Witness ==
    /\ ret.op = "write_to_file" /\ IsTyped(ret.before) /\ ret.kind = "ok"
    /\ ret.before["repo_path"] = None /\ ret.before["branch"] = Str("None")
    /\ ret.before["committer_name"] = Str("y")
    /\ DOMAIN ret.out.d = {"committer_name"}

(***************************************************************************)
(* C7                                                                      *)
(***************************************************************************)
\* C7: in the mapping to_yaml_dict gives, upstreams is present exactly when
\* the configuration's upstreams is set; it is then a nested mapping that
\* holds sources, skip_validation and include_models with the
\* configuration's values, and exclude_models (with its value) if and only
\* if the configuration's exclude_models is not empty.
C7_Upstreams ==
    (ret.op = "write_to_file" /\ IsTyped(ret.before))
    => /\ ret.kind = "ok" /\ ret.out.t = "dict"
       /\ "upstreams" \in DOMAIN ret.out.d <=> ret.before["upstreams"] # None
       /\ "upstreams" \in DOMAIN ret.out.d =>
             LET u == ret.before["upstreams"]
                 n == ret.out.d["upstreams"]
             IN  /\ n.t = "dict"
                 /\ {"sources", "skip_validation", "include_models"} \subseteq DOMAIN n.d
                 /\ DOMAIN n.d \subseteq
                       {"sources", "skip_validation", "include_models", "exclude_models"}
                 /\ n.d["sources"] = u.sources
                 /\ n.d["skip_validation"] = u.skip_validation
                 /\ n.d["include_models"] = u.include_models
                 /\ "exclude_models" \in DOMAIN n.d <=> u.exclude_models # List(<<>>)
                 /\ "exclude_models" \in DOMAIN n.d => n.d["exclude_models"] = u.exclude_models

C7_Witness ==
    /\ ret.op = "write_to_file" /\ IsTyped(ret.before) /\ ret.kind = "ok"
    /\ ret.before["upstreams"] # None
    /\ ret.before["upstreams"].exclude_models = List(<<>>)
    /\ ret.before["upstreams"].include_models = List(<<>>)
    /\ DOMAIN ret.out.d["upstreams"].d = {"sources", "skip_validation", "include_models"}

(***************************************************************************)
(* C8                                                                      *)
(***************************************************************************)
HasLoc(err) == "loc" \in DOMAIN err /\ err["loc"] # <<>>
HasMsg(err) == "msg" \in DOMAIN err /\ err["msg"] # ""
PathClause(err) == "Invalid config value for " \o err["loc"][1] \o "."

RECURSIVE Concat(_, _)
\* the first n strings of a list, one after the other
Concat(strs, n) == IF n = 0 THEN "" ELSE Concat(strs, n - 1) \o strs[n]

\* the formatted list follows the violations, and the combined string is the
\* list's strings in order with nothing between them
KeepsListAndJoins ==
    /\ Len(ret.errors) = Len(ret.arg)
    /\ ret.text = Concat(ret.errors, Len(ret.errors))

\* C8 as stated: a violation is formatted as
\* "Invalid config value for <segment>. <message>.", with the path clause
\* left out when it has no path, the message clause left out when it has no
\* message, and "Unable to load config." when it has neither.
C8_ClausesOmitted ==
    ret.op = "ComplyScribeConfigError"
    => /\ KeepsListAndJoins
       /\ \A i \in 1..Len(ret.arg) :
             LET err == ret.arg[i]
             IN  CASE HasLoc(err) /\ HasMsg(err) ->
                        ret.errors[i] = PathClause(err) \o " " \o err["msg"] \o "."
                   [] HasLoc(err) /\ ~HasMsg(err) -> ret.errors[i] = PathClause(err)
                   [] ~HasLoc(err) /\ HasMsg(err) ->
                        ret.errors[i] \in {err["msg"] \o ".", " " \o err["msg"] \o "."}
                   [] OTHER -> ret.errors[i] = "Unable to load config."

\* C8 amended: a violation with a path is formatted as
\* "Invalid config value for <segment>." and one without as
\* "Unable to load config."; " <message>." follows either when the
\* violation has a message. The error keeps the formatted strings as a list
\* in the order of the violations, and its combined string is that list
\* concatenated in order with no separator.
C8_Format ==
    ret.op = "ComplyScribeConfigError"
    => /\ KeepsListAndJoins
       /\ \A i \in 1..Len(ret.arg) :
             LET err == ret.arg[i]
             IN  ret.errors[i] =
                    (IF HasLoc(err) THEN PathClause(err) ELSE "Unable to load config.")
                    \o (IF HasMsg(err) THEN " " \o err["msg"] \o "." ELSE "")

C8_Witness ==
    /\ ret.op = "ComplyScribeConfigError"
    /\ Len(ret.arg) = 2
    /\ ~HasLoc(ret.arg[1]) /\ HasMsg(ret.arg[1]) /\ HasLoc(ret.arg[2])
    /\ ret.text = "Unable to load config. Field required."
                  \o "Invalid config value for upstreams. Field required."

(***************************************************************************)
(* C9                                                                      *)
(***************************************************************************)
\* the value make_config is documented to give a field of mapping d
Documented(d, f) ==
    IF f \notin DOMAIN d \/ d[f] = None THEN None
    ELSE CASE f = "repo_path" ->
                PathV(IF d[f].t = "str" THEN PathOf(d[f].s) ELSE d[f].p)
           [] f = "upstreams" ->
                IF d[f].t = "UpstreamsConfig" THEN d[f]
                ELSE UpstreamsConfig(
                        d[f].d["sources"],
                        Get(d[f].d, "include_models", List(<<Str("*")>>)),
                        Get(d[f].d, "exclude_models", List(<<>>)),
                        Get(d[f].d, "skip_validation", Bool(FALSE)))
           [] OTHER -> d[f]

\* C9: for no mapping at all and for every mapping that conforms to the
\* schema (the empty one included), make_config succeeds and every field of
\* the result is the mapping's value (repo_path as the path it names), or
\* the documented default when the mapping lacks it: None at the top level;
\* include_models ["*"], exclude_models [], skip_validation false.
C9_MakeConfig ==
    (ret.op = "make_config"
        /\ (ret.arg = NoValues \/ (ret.arg.t = "dict" /\ InvalidFields(ret.arg.d) = {})))
    => /\ ret.kind = "ok" /\ ret.new \in Ids
       /\ \A f \in Fields :
             heap[ret.new][f] =
                IF ret.arg = NoValues THEN None ELSE Documented(ret.arg.d, f)

C9_Witness ==
    /\ ret.op = "make_config" /\ ret.kind = "ok" /\ ret.arg.t = "dict"
    /\ DOMAIN ret.arg.d = {"upstreams"}
    /\ ret.arg.d["upstreams"] = UpValidMin
    /\ heap[ret.new]["upstreams"].include_models = List(<<Str("*")>>)
    /\ heap[ret.new]["branch"] = None

(***************************************************************************)
(* C10                                                                     *)
(***************************************************************************)
\* C10: update_config does not mutate its input: after the call every field
\* of the configuration it was given (its upstreams value included) is as
\* before the call, and the configuration returned is another instance.
C10_InputUnchanged ==
    ret.op = "update_config"
    => /\ ret.cfg \in Ids /\ ret.new \in Ids
       /\ heap[ret.cfg] = ret.before
       /\ ret.new # ret.cfg

C10_Witness ==
    /\ ret.op = "update_config"
    /\ "upstreams" \in DOMAIN ret.arg
    /\ ret.before["upstreams"] # None
    /\ heap[ret.cfg]["upstreams"] = ret.before["upstreams"]
    /\ heap[ret.new]["upstreams"] # ret.before["upstreams"]

====
